---- MODULE Spec2Model ----
(***************************************************************************)
(* Model of the file validation and PDF-to-image pipeline of               *)
(* ai-report-summarizer (src/file_utils.py): detect_file_type,             *)
(* validate_file, pdf_bytes_to_images and process_file; of the steps       *)
(* app.main takes on an uploaded file (src/app.py); and of                 *)
(* check_all_configs with the client functions it calls (src/config.py).   *)
(*                                                                         *)
(* One call is modelled at a time.  The state is the position of the call  *)
(* (pc), its arguments and locals, the library calls it has made, the PDF  *)
(* document handles it has opened and not yet released, and its outcome    *)
(* (a returned value or a raised exception).                               *)
(***************************************************************************)
EXTENDS Integers, Sequences, FiniteSets, TLC

VARIABLES
    entry,      \* the function called from outside
    input,      \* file_bytes / pdf_bytes: the submitted byte sequence
    ftype,      \* file_type: argument of validate_file, local of process_file
    pc,         \* position of the call
    calls,      \* call sites of Image.open / fitz.open executed so far
    handles,    \* fitz documents opened and not yet closed
    probed,     \* validate_file: idx of the page loop (pages probed so far)
    rendered,   \* pdf_bytes_to_images: pages taken from the document so far
    images,     \* pdf_bytes_to_images: the list `images`
    pix,        \* the last pixmap / rendered bitmap (width, height)
    img,        \* the last PIL image after the optional resize
    result,     \* value returned by the call
    exc,        \* exception that left the call
    env,        \* config.py: the settings read from the environment
    id,         \* check_all_configs: position in the list `configs`
    all_initialized,  \* check_all_configs: the flag it returns
    returned,   \* what each client function called so far has returned
    log,        \* app.main: the external steps carried out so far
    pages,      \* app.main: the list `pages`
    cleaned_pages,    \* app.main: the list `cleaned_pages`
    summary     \* app.main: the "Page idx" sections appended to `summary`

cfgVars == <<env, id, all_initialized, returned>>

mainVars == <<log, cleaned_pages, summary>>

vars == <<entry, input, ftype, pc, calls, handles, probed, rendered,
          images, pix, img, result, exc, cfgVars, mainVars, pages>>

----------------------------------------------------------------------------
(* Program constants                                                       *)

AZURE_MAX_IMAGE_WIDTH == 10000
AZURE_MAX_IMAGE_HEIGHT == 10000
AZURE_MAX_FILE_MB == 500
AZURE_MAX_PDF_PAGES == 2000
DefaultDpi == 150
DefaultMaxWidth == 1200
PdfPointsPerInch == 72
MiB == 1024 * 1024

(* Bounds of the model                                                     *)

MaxPages == 2        \* longest explicitly enumerated document
ResizeWLo == 1195    \* rendered widths tried by the resize specification
ResizeWHi == 1400
ResizeHHi == 150     \* rendered heights tried by the resize specification

----------------------------------------------------------------------------
(* Inputs.  A byte sequence is described by what the code and the two      *)
(* libraries read from it: its length, whether it begins with %PDF, what   *)
(* Pillow finds in it, and what MuPDF finds in it.                         *)
(*   content "empty"       b""                                             *)
(*           "junk"        no %PDF signature, no image container           *)
(*           "image"       a well-formed raster image of w x h pixels      *)
(*           "image_trunc" an image container whose verify() fails         *)
(*           "pdf"         %PDF..., parses, with the pages listed          *)
(*           "pdf_broken"  %PDF..., does not parse                         *)
(* Page sizes are in PDF points.  A document has the pages listed in       *)
(* `pages` followed by `fill` further pages of size FillerPage.            *)

Dim(w, h) == [w |-> w, h |-> h]

NoDim == Dim(0, 0)

FillerPage == Dim(595, 842)

PageSet ==
    { Dim(595, 842),      \* A4
      Dim(576, 100),      \* renders exactly DefaultMaxWidth wide
      Dim(668, 139),      \* renders 1392 x 290
      Dim(1729, 1),       \* very wide and short
      Dim(500, 10000),    \* as tall as the limit allows
      Dim(10001, 10) }    \* wider than the limit

ImageDims ==
    { Dim(10, 10), Dim(10000, 10), Dim(10, 10000),
      Dim(10001, 10), Dim(10, 10001) }

Lens ==
    { 1024,
      AZURE_MAX_FILE_MB * 1000000 + 1,
      AZURE_MAX_FILE_MB * MiB,
      AZURE_MAX_FILE_MB * MiB + 1 }

SeqsUpTo(S, n) == UNION { [1..k -> S] : k \in 0..n }

Bytes(content, len, d, ps, fill) ==
    [content |-> content, len |-> len, w |-> d.w, h |-> d.h,
     pages |-> ps, fill |-> fill]

Inputs ==
    { Bytes("empty", 0, NoDim, <<>>, 0) }
    \cup { Bytes(c, n, NoDim, <<>>, 0) :
             c \in {"junk", "image_trunc", "pdf_broken"}, n \in Lens }
    \cup { Bytes("image", n, d, <<>>, 0) : n \in Lens, d \in ImageDims }
    \cup { Bytes("pdf", n, NoDim, ps, 0) :
             n \in Lens, ps \in SeqsUpTo(PageSet, MaxPages) }
    \cup { Bytes("pdf", 1024, NoDim, <<>>, k) :
             k \in {AZURE_MAX_PDF_PAGES, AZURE_MAX_PDF_PAGES + 1} }

PageCount(b) == Len(b.pages) + b.fill

\* the page with 0-based index i
PageAt(b, i) == IF i < Len(b.pages) THEN b.pages[i + 1] ELSE FillerPage

----------------------------------------------------------------------------
(* The libraries, as seen from file_utils.py                               *)

StartsWithPDF(b) == b.content \in {"pdf", "pdf_broken"}

\* Image.open(...) followed by img.verify(): "ok" or the exception raised
PilOpenVerify(b) ==
    CASE b.content = "image" -> "ok"
      [] b.content = "image_trunc" -> "SyntaxError"
      [] OTHER -> "UnidentifiedImageError"

\* fitz.open(stream=..., filetype="pdf") succeeds
FitzOpens(b) == b.content = "pdf"

CeilDiv(a, b) == (a + b - 1) \div b

\* page.get_pixmap(alpha=False): the page at the document's native scale
Probe(page) == Dim(page.w, page.h)

\* page.get_pixmap(matrix=fitz.Matrix(zoom, zoom)) with zoom = dpi / 72
Render(page, dpi) ==
    Dim(CeilDiv(page.w * dpi, PdfPointsPerInch),
        CeilDiv(page.h * dpi, PdfPointsPerInch))

----------------------------------------------------------------------------
(* Pure parts of file_utils.py                                             *)

Exc(kind, msg) == [kind |-> kind, msg |-> msg]

NoExc == Exc("none", <<>>)

NoResult == [kind |-> "none"]

FileErrors ==
    {"EmptyFileError", "UnsupportedFileTypeError",
     "FileTooLargeError", "CorruptedFileError"}

\* variant: the comparison written >= instead of >
SizeExceeds_AtLeast(len) == len >= AZURE_MAX_FILE_MB * MiB

\* size_mb = len(file_bytes) / (1024 * 1024); size_mb > AZURE_MAX_FILE_MB.
\* The division by a power of two is exact in binary floating point.
SizeExceeds(len) == len > AZURE_MAX_FILE_MB * MiB

\* variant: the limits compared with >= instead of >
DimsExceed_AtLeast(d) ==
    d.w >= AZURE_MAX_IMAGE_WIDTH \/ d.h >= AZURE_MAX_IMAGE_HEIGHT

\* variant: `and` written for `or`
DimsExceed_Both(d) ==
    d.w > AZURE_MAX_IMAGE_WIDTH /\ d.h > AZURE_MAX_IMAGE_HEIGHT

\* width > AZURE_MAX_IMAGE_WIDTH or height > AZURE_MAX_IMAGE_HEIGHT
DimsExceed(d) == d.w > AZURE_MAX_IMAGE_WIDTH \/ d.h > AZURE_MAX_IMAGE_HEIGHT

RECURSIVE Pow2(_)
Pow2(n) == IF n = 0 THEN 1 ELSE 2 * Pow2(n - 1)

RECURSIVE PowMod2(_, _)
\* 2^k modulo m
PowMod2(k, m) == IF k = 0 THEN 1 % m ELSE (2 * PowMod2(k - 1, m)) % m

RECURSIVE ShiftUntil(_, _)
\* the least t with a * 2^t >= b
ShiftUntil(a, b) == IF a >= b THEN 0 ELSE 1 + ShiftUntil(2 * a, b)

RECURSIVE Log2Floor(_)
Log2Floor(q) == IF q < 2 THEN 0 ELSE 1 + Log2Floor(q \div 2)

(* int(height * (max_width / width)) in IEEE-754 binary64, for             *)
(* 0 < max_width < width.  The quotient max_width / width is rounded to 53 *)
(* bits (ratio), the product height * ratio is rounded again, and int()    *)
(* truncates.  When width does not divide height * max_width the two       *)
(* roundings cannot reach the next integer and the result is the floor of  *)
(* the exact quotient q.  When it does, the product is q exactly unless    *)
(* ratio was rounded down by rem / (width * 2^(52+t)) and height times     *)
(* that deficit exceeds half the gap between q and the double below it;    *)
(* then the product falls below q and int() yields q - 1.                  *)
FloatTruncMul(height, max_width, width) ==
    LET a == height * max_width
        q == a \div width
    IN  IF a % width # 0 THEN q
        ELSE LET t == ShiftUntil(max_width, width)
                 rem == (max_width * PowMod2(52 + t, width)) % width
                 j == Log2Floor(q)
                 p2 == IF q = Pow2(j) THEN 1 ELSE 0
             IN  IF rem = 0 \/ 2 * rem > width THEN q
                 ELSE IF 4 * height * rem > width * Pow2(t + j + 1 - p2)
                      THEN q - 1
                      ELSE q

\* variant: new_height = round(img.height * ratio)
Downsample_Round(p, max_width) ==
    IF p.w > max_width
    THEN Dim(max_width, (2 * p.h * max_width + p.w) \div (2 * p.w))
    ELSE p

\* variant: the threshold test written on img.height
Downsample_HeightTest(p, max_width) ==
    IF p.h > max_width /\ p.w > 0
    THEN Dim(max_width, (p.h * max_width) \div p.w)
    ELSE p

\* if img.width > max_width: ratio = max_width / img.width;
\* new_height = int(img.height * ratio); size (max_width, new_height)
Downsample(p, max_width) ==
    IF p.w > max_width
    THEN Dim(max_width, FloatTruncMul(p.h, max_width, p.w))
    ELSE p

\* Image.resize rejects a target size with a side below one pixel
\* (ValueError: height and width must be > 0)
ResizeRaises(p, max_width) ==
    p.w > max_width /\ Downsample(p, max_width).h < 1

\* variant: only `except UnidentifiedImageError`, no `except Exception`
DetectOutcome_NoGenericHandler(b) ==
    IF b.len = 0
    THEN [ret |-> "none", exc |-> Exc("EmptyFileError", <<"File is empty">>),
          opened |-> FALSE]
    ELSE IF StartsWithPDF(b)
    THEN [ret |-> "pdf", exc |-> NoExc, opened |-> FALSE]
    ELSE IF PilOpenVerify(b) = "ok"
    THEN [ret |-> "image", exc |-> NoExc, opened |-> TRUE]
    ELSE IF PilOpenVerify(b) = "UnidentifiedImageError"
    THEN [ret |-> "none",
          exc |-> Exc("UnsupportedFileTypeError",
                      <<"Unsupported image format">>),
          opened |-> TRUE]
    ELSE [ret |-> "none", exc |-> Exc(PilOpenVerify(b), <<>>),
          opened |-> TRUE]

(* detect_file_type: the returned type, the exception raised, and whether  *)
(* Image.open was reached.                                                 *)
DetectOutcome(b) ==
    IF b.len = 0
    THEN [ret |-> "none", exc |-> Exc("EmptyFileError", <<"File is empty">>),
          opened |-> FALSE]
    ELSE IF StartsWithPDF(b)
    THEN [ret |-> "pdf", exc |-> NoExc, opened |-> FALSE]
    ELSE IF PilOpenVerify(b) = "ok"
    THEN [ret |-> "image", exc |-> NoExc, opened |-> TRUE]
    ELSE IF PilOpenVerify(b) = "UnidentifiedImageError"
    THEN [ret |-> "none",
          exc |-> Exc("UnsupportedFileTypeError",
                      <<"Unsupported image format">>),
          opened |-> TRUE]
    ELSE [ret |-> "none",
          exc |-> Exc("UnsupportedFileTypeError",
                      <<"Error processing file: ", PilOpenVerify(b)>>),
          opened |-> TRUE]

(* The image branch of validate_file.  InTry is what the body of the try   *)
(* block raises; the two except clauses then translate it.                 *)
ImageInTry(b) ==
    IF PilOpenVerify(b) # "ok"
    THEN Exc(PilOpenVerify(b), <<>>)
    ELSE IF DimsExceed(Dim(b.w, b.h))
    THEN Exc("FileTooLargeError",
             <<"Image dimensions ", b.w, b.h, " exceed Azure OCR limits of ",
               AZURE_MAX_IMAGE_WIDTH, AZURE_MAX_IMAGE_HEIGHT>>)
    ELSE NoExc

ImageOutcome(b) ==
    IF ImageInTry(b).kind = "none" THEN NoExc
    ELSE IF ImageInTry(b).kind = "UnidentifiedImageError"
    THEN Exc("CorruptedFileError", <<"Image is corrupted.">>)
    ELSE Exc("CorruptedFileError", <<"Image validation failed.">>)

----------------------------------------------------------------------------
(* Configuration (src/config.py)                                           *)
(*                                                                         *)
(* A setting of AzureConfig is "unset" (os.getenv gave None) or set; the   *)
(* Computer Vision endpoint, when set, starts with https:// or does not.   *)

Settings == {"unset", "set"}

Envs ==
    [ COMPUTER_VISION_ENDPOINT : {"unset", "http://", "https://"},
      COMPUTER_VISION_KEY : Settings,
      OPENAI_ENDPOINT : Settings,
      OPENAI_KEY : Settings,
      AZURE_STORAGE_ENDPOINT : Settings,
      AZURE_STORAGE_KEY : Settings,
      CONTAINER_NAME : Settings,
      BLOB_NAME : Settings ]

FullEnv ==
    [ COMPUTER_VISION_ENDPOINT |-> "https://",
      COMPUTER_VISION_KEY |-> "set",
      OPENAI_ENDPOINT |-> "set",
      OPENAI_KEY |-> "set",
      AZURE_STORAGE_ENDPOINT |-> "set",
      AZURE_STORAGE_KEY |-> "set",
      CONTAINER_NAME |-> "set",
      BLOB_NAME |-> "set" ]

\* `not X` for a setting X
Not(x) == x = "unset"

(* The validators: the exception raised, or "none" when True is returned.  *)
(* With only the endpoint unset the first test of                          *)
(* validate_computer_vision_config passes and None.startswith raises       *)
(* AttributeError.                                                         *)
validate_computer_vision_config(e) ==
    CASE Not(e.COMPUTER_VISION_ENDPOINT) /\ Not(e.COMPUTER_VISION_KEY)
            -> "ValueError"
      [] Not(e.COMPUTER_VISION_ENDPOINT) -> "AttributeError"
      [] e.COMPUTER_VISION_ENDPOINT # "https://" -> "ValueError"
      [] OTHER -> "none"

validate_openai_config(e) ==
    IF Not(e.OPENAI_ENDPOINT) /\ Not(e.OPENAI_KEY)
    THEN "ValueError" ELSE "none"

validate_blob_service_config(e) ==
    IF Not(e.AZURE_STORAGE_ENDPOINT) /\ Not(e.AZURE_STORAGE_KEY)
    THEN "ValueError" ELSE "none"

validate_blob_storage_config(e) ==
    IF Not(e.CONTAINER_NAME) /\ Not(e.BLOB_NAME)
    THEN "ValueError" ELSE "none"

(* What a client constructor of the Azure / OpenAI libraries does: it      *)
(* returns a client ("ok") or raises.  It can return a client only when    *)
(* the settings it is given are set.                                       *)
SdkOutcomes == {"ok", "ValueError", "AzureError", "TypeError"}

SdkFor(ready) == IF ready THEN SdkOutcomes ELSE SdkOutcomes \ {"ok"}

\* outcome of a client function: the value returned or the exception raised
Returns(v) == [ret |-> v, exc |-> "none"]

Raises(x) == [ret |-> "nothing", exc |-> x]

\* the except clauses shared by the four client functions, then return None
Caught == {"ValueError", "HttpResponseError", "AzureError"}

Handled(x) == IF x \in Caught THEN Returns("None") ELSE Raises(x)

\* AzureKeyCredential(key) accepts only a string
AzureKeyCredential(key) == IF Not(key) THEN "TypeError" ELSE "none"

get_computer_vision_client(e, sdk) ==
    CASE validate_computer_vision_config(e) # "none"
            -> Handled(validate_computer_vision_config(e))
      [] AzureKeyCredential(e.COMPUTER_VISION_KEY) # "none"
            -> Handled(AzureKeyCredential(e.COMPUTER_VISION_KEY))
      [] sdk # "ok" -> Handled(sdk)
      [] OTHER -> Returns("client")

get_openai_client(e, sdk) ==
    CASE validate_openai_config(e) # "none"
            -> Handled(validate_openai_config(e))
      [] sdk # "ok" -> Handled(sdk)
      [] OTHER -> Returns("client")

\* no validator is called here
get_blob_service_client(e, sdk) ==
    IF sdk # "ok" THEN Handled(sdk) ELSE Returns("client")

(* get_blob_client builds the service client first (its constructor        *)
(* outcome is sdk1) and calls a method of whatever it got: of None, that   *)
(* is an AttributeError.                                                   *)
get_blob_client(e, sdk1, sdk2) ==
    CASE get_blob_service_client(e, sdk1).exc # "none"
            -> get_blob_service_client(e, sdk1)
      [] get_blob_service_client(e, sdk1).ret = "None"
            -> Handled("AttributeError")
      [] sdk2 # "ok" -> Handled(sdk2)
      [] OTHER -> Returns("client")

\* the list `configs` of check_all_configs
configs == <<"Vision", "OpenAI", "Azure Storage Blob", "Service Blob">>

\* the settings a constructor needs are set
Ready(name, e) ==
    CASE name = "Vision" ->
            e.COMPUTER_VISION_ENDPOINT # "unset"
            /\ ~Not(e.COMPUTER_VISION_KEY)
      [] name = "OpenAI" -> ~Not(e.OPENAI_ENDPOINT) /\ ~Not(e.OPENAI_KEY)
      [] name = "Azure Storage Blob" ->
            ~Not(e.CONTAINER_NAME) /\ ~Not(e.BLOB_NAME)
      [] OTHER -> ~Not(e.AZURE_STORAGE_ENDPOINT)

client_function(name, e, sdk1, sdk2) ==
    CASE name = "Vision" -> get_computer_vision_client(e, sdk2)
      [] name = "OpenAI" -> get_openai_client(e, sdk2)
      [] name = "Azure Storage Blob" -> get_blob_client(e, sdk1, sdk2)
      [] OTHER -> get_blob_service_client(e, sdk2)

----------------------------------------------------------------------------
(* Control flow                                                            *)

Entries ==
    {"detect_file_type", "validate_file", "pdf_bytes_to_images",
     "process_file", "main"}

\* the files uploaded to app.main: every input without filler pages
MainInputs == {b \in Inputs : b.fill = 0}

\* validate_file may be called with any file_type string
FileTypes == {"pdf", "image", "txt"}

Upper(t) ==
    CASE t = "pdf" -> "PDF" [] t = "image" -> "IMAGE" [] OTHER -> "TXT"

\* no client function has been called, app.main has taken no step
Idle ==
    /\ id = 1
    /\ all_initialized = TRUE
    /\ returned = <<>>
    /\ log = <<>>
    /\ pages = <<>>
    /\ cleaned_pages = <<>>
    /\ summary = <<>>

Init ==
    /\ entry \in Entries
    /\ input \in IF entry = "main" THEN MainInputs ELSE Inputs
    /\ ftype \in IF entry = "validate_file" THEN FileTypes ELSE {"none"}
    /\ pc = CASE entry = "validate_file" -> "validate"
              [] entry = "pdf_bytes_to_images" -> "r_open"
              [] entry = "main" -> "m_upload"
              [] OTHER -> "detect"
    /\ env = FullEnv
    /\ Idle
    /\ calls = {}
    /\ handles = {}
    /\ probed = 0
    /\ rendered = 0
    /\ images = <<>>
    /\ pix = NoDim
    /\ img = NoDim
    /\ result = NoResult
    /\ exc = NoExc

(* An exception leaves the call.  Nothing in file_utils.py closes a        *)
(* document (no close(), no with, no finally): a handle is released only   *)
(* when the interpreter finalises the unreachable Document object, which   *)
(* may or may not have happened by the time a frame is left.               *)
(* Inside app.main the exception is taken by the except clauses of main.   *)
Raise(e) ==
    /\ pc' = IF entry = "main" THEN "m_except" ELSE "raised"
    /\ exc' = e
    /\ handles' \in SUBSET handles
    /\ UNCHANGED result

\* validate_file falls off its end and returns None
ValidateReturn ==
    /\ handles' \in SUBSET handles
    /\ exc' = exc
    /\ IF entry \in {"process_file", "main"}
       THEN pc' = "convert" /\ UNCHANGED result
       ELSE pc' = "done" /\ result' = [kind |-> "None"]

\* detect_file_type, lines 79-92 (and process_file line 203)
Detect ==
    /\ pc = "detect"
    /\ LET o == DetectOutcome(input)
       IN  /\ calls' = IF o.opened THEN calls \cup {"detect.Image.open"}
                       ELSE calls
           /\ IF o.exc.kind # "none"
              THEN Raise(o.exc) /\ UNCHANGED ftype
              ELSE IF entry = "detect_file_type"
              THEN /\ pc' = "done"
                   /\ result' = [kind |-> "type", val |-> o.ret]
                   /\ UNCHANGED <<ftype, exc, handles>>
              ELSE /\ pc' = "validate"
                   /\ ftype' = o.ret
                   /\ UNCHANGED <<result, exc, handles>>
    /\ UNCHANGED <<cfgVars, mainVars, pages>>
    /\ UNCHANGED <<entry, input, probed, rendered, images, pix, img>>

\* variant: the size check placed after the format-specific branches
ValidateSize_ParseFirst ==
    /\ pc = "validate"
    /\ IF ftype = "pdf"
       THEN pc' = "v_open" /\ UNCHANGED <<result, exc, handles>>
       ELSE IF ftype = "image"
       THEN pc' = "v_image" /\ UNCHANGED <<result, exc, handles>>
       ELSE IF SizeExceeds(input.len)
       THEN Raise(Exc("FileTooLargeError",
                      <<Upper(ftype), " exceeds max allowed size of ",
                        AZURE_MAX_FILE_MB, " MB.">>))
       ELSE Raise(Exc("UnsupportedFileTypeError", <<"Unsupported format.">>))
    /\ UNCHANGED <<cfgVars, mainVars, pages>>
    /\ UNCHANGED <<entry, input, ftype, calls, probed, rendered, images,
                   pix, img>>

\* validate_file, lines 114-122, 147, 164-165: size check, then dispatch
ValidateSize ==
    /\ pc = "validate"
    /\ IF SizeExceeds(input.len)
       THEN Raise(Exc("FileTooLargeError",
                      <<Upper(ftype), " exceeds max allowed size of ",
                        AZURE_MAX_FILE_MB, " MB.">>))
       ELSE IF ftype = "pdf"
       THEN pc' = "v_open" /\ UNCHANGED <<result, exc, handles>>
       ELSE IF ftype = "image"
       THEN pc' = "v_image" /\ UNCHANGED <<result, exc, handles>>
       ELSE Raise(Exc("UnsupportedFileTypeError", <<"Unsupported format.">>))
    /\ UNCHANGED <<cfgVars, mainVars, pages>>
    /\ UNCHANGED <<entry, input, ftype, calls, probed, rendered, images,
                   pix, img>>

\* variant: fitz.open called without the enclosing try/except
ValidatePdfOpen_Unwrapped ==
    /\ pc = "v_open"
    /\ calls' = calls \cup {"validate.fitz.open"}
    /\ IF FitzOpens(input)
       THEN /\ handles' = handles \cup {"validate"}
            /\ pc' = "v_count"
            /\ UNCHANGED <<result, exc>>
       ELSE Raise(Exc("FileDataError", <<"fitz.open">>))
    /\ UNCHANGED <<cfgVars, mainVars, pages>>
    /\ UNCHANGED <<entry, input, ftype, probed, rendered, images, pix, img>>

\* validate_file, lines 123-126
ValidatePdfOpen ==
    /\ pc = "v_open"
    /\ calls' = calls \cup {"validate.fitz.open"}
    /\ IF FitzOpens(input)
       THEN /\ handles' = handles \cup {"validate"}
            /\ pc' = "v_count"
            /\ UNCHANGED <<result, exc>>
       ELSE Raise(Exc("CorruptedFileError", <<"PDF appears corrupted.">>))
    /\ UNCHANGED <<cfgVars, mainVars, pages>>
    /\ UNCHANGED <<entry, input, ftype, probed, rendered, images, pix, img>>

\* validate_file, lines 129-134
ValidatePageCount ==
    /\ pc = "v_count"
    /\ IF PageCount(input) > AZURE_MAX_PDF_PAGES
       THEN Raise(Exc("FileTooLargeError",
                      <<PageCount(input), " pages exceeds max number of ",
                        AZURE_MAX_PDF_PAGES>>))
       ELSE pc' = "v_page" /\ UNCHANGED <<result, exc, handles>>
    /\ UNCHANGED <<cfgVars, mainVars, pages>>
    /\ UNCHANGED <<entry, input, ftype, calls, probed, rendered, images,
                   pix, img>>

\* line 129: len(doc) raises inside the library; no try encloses it
ValidatePageCountFails ==
    /\ pc = "v_count"
    /\ Raise(Exc("ValueError", <<"len(doc)">>))
    /\ UNCHANGED <<cfgVars, mainVars, pages>>
    /\ UNCHANGED <<entry, input, ftype, calls, probed, rendered, images,
                   pix, img>>

\* validate_file, lines 137-145: one iteration of the page loop, or its end
ValidatePage ==
    /\ pc = "v_page"
    /\ IF probed = PageCount(input)
       THEN ValidateReturn /\ UNCHANGED <<probed, pix>>
       ELSE LET p == Probe(PageAt(input, probed))
            IN  /\ pix' = p
                /\ IF DimsExceed(p)
                   THEN /\ Raise(Exc("FileTooLargeError",
                                     <<"PDF page ", probed, " renders to ",
                                       p.w, p.h,
                                       " which exceeds max allowed ",
                                       AZURE_MAX_IMAGE_WIDTH,
                                       AZURE_MAX_IMAGE_HEIGHT>>))
                        /\ UNCHANGED probed
                   ELSE /\ probed' = probed + 1
                        /\ UNCHANGED <<pc, result, exc, handles>>
    /\ UNCHANGED <<cfgVars, mainVars, pages>>
    /\ UNCHANGED <<entry, input, ftype, calls, rendered, images, img>>

\* line 138: page.get_pixmap raises inside the library; no try encloses it
ValidateProbeFails ==
    /\ pc = "v_page"
    /\ probed < PageCount(input)
    /\ Raise(Exc("RuntimeError", <<"get_pixmap", probed>>))
    /\ UNCHANGED <<cfgVars, mainVars, pages>>
    /\ UNCHANGED <<entry, input, ftype, calls, probed, rendered, images,
                   pix, img>>

\* validate_file, lines 148-162
ValidateImage ==
    /\ pc = "v_image"
    /\ calls' = calls \cup {"validate.Image.open"}
    /\ IF ImageOutcome(input).kind = "none"
       THEN ValidateReturn
       ELSE Raise(ImageOutcome(input))
    /\ UNCHANGED <<cfgVars, mainVars, pages>>
    /\ UNCHANGED <<entry, input, ftype, probed, rendered, images, pix, img>>

(* process_file (or pdf_bytes_to_images) returns val.  Called from         *)
(* app.main, the value becomes the list `pages`: the list itself, or the   *)
(* one-element list holding the bytes (app.py lines 80-81).                *)
ProcessReturn(val) ==
    /\ handles' \in SUBSET handles
    /\ IF entry = "main"
       THEN /\ pc' = "m_ocr"
            /\ pages' = IF val.kind = "pages" THEN val.val ELSE <<val.val>>
            /\ UNCHANGED result
       ELSE /\ pc' = "done"
            /\ result' = val
            /\ UNCHANGED pages

\* variant: every result returned as a list, the image as its only element
Convert_WrapsImage ==
    /\ pc = "convert"
    /\ IF ftype = "pdf"
       THEN pc' = "r_open" /\ UNCHANGED <<result, handles, pages>>
       ELSE ProcessReturn([kind |-> "pages", val |-> <<input>>])
    /\ UNCHANGED <<cfgVars, mainVars>>
    /\ UNCHANGED <<entry, input, ftype, calls, probed, rendered, images,
                   pix, img, exc>>

\* process_file, lines 206-209
Convert ==
    /\ pc = "convert"
    /\ IF ftype = "pdf"
       THEN pc' = "r_open" /\ UNCHANGED <<result, handles, pages>>
       ELSE ProcessReturn([kind |-> "bytes", val |-> input])
    /\ UNCHANGED <<cfgVars, mainVars>>
    /\ UNCHANGED <<entry, input, ftype, calls, probed, rendered, images,
                   pix, img, exc>>

\* pdf_bytes_to_images, lines 235-240
RasterOpen ==
    /\ pc = "r_open"
    /\ calls' = calls \cup {"raster.fitz.open"}
    /\ IF FitzOpens(input)
       THEN /\ handles' = handles \cup {"raster"}
            /\ pc' = "r_page"
            /\ UNCHANGED <<result, exc>>
       ELSE Raise(Exc("CorruptedFileError", <<"PDF appears corrupted.">>))
    /\ UNCHANGED <<cfgVars, mainVars, pages>>
    /\ UNCHANGED <<entry, input, ftype, probed, rendered, images, pix, img>>

\* variant: images.append(img) indented into the resize branch
RasterPage_AppendInIf ==
    /\ pc = "r_page"
    /\ IF rendered = PageCount(input)
       THEN /\ ProcessReturn([kind |-> "pages", val |-> images])
            /\ UNCHANGED <<rendered, images, pix, img, exc>>
       ELSE LET p == Render(PageAt(input, rendered), DefaultDpi)
            IN  /\ pix' = p
                /\ rendered' = rendered + 1
                /\ UNCHANGED pages
                /\ IF ResizeRaises(p, DefaultMaxWidth)
                   THEN /\ Raise(Exc("ValueError",
                                     <<"height and width must be > 0">>))
                        /\ UNCHANGED <<images, img>>
                   ELSE /\ img' = Downsample(p, DefaultMaxWidth)
                        /\ images' =
                             IF p.w > DefaultMaxWidth
                             THEN Append(images,
                                    [src |-> rendered,
                                     w |-> Downsample(p, DefaultMaxWidth).w,
                                     h |-> Downsample(p, DefaultMaxWidth).h])
                             ELSE images
                        /\ UNCHANGED <<pc, result, exc, handles>>
    /\ UNCHANGED <<cfgVars, mainVars>>
    /\ UNCHANGED <<entry, input, ftype, calls, probed>>

\* pdf_bytes_to_images, lines 242-257: one iteration of the page loop, or
\* the return of the list
RasterPage ==
    /\ pc = "r_page"
    /\ IF rendered = PageCount(input)
       THEN /\ ProcessReturn([kind |-> "pages", val |-> images])
            /\ UNCHANGED <<rendered, images, pix, img, exc>>
       ELSE LET p == Render(PageAt(input, rendered), DefaultDpi)
            IN  /\ pix' = p
                /\ rendered' = rendered + 1
                /\ UNCHANGED pages
                /\ IF ResizeRaises(p, DefaultMaxWidth)
                   THEN /\ Raise(Exc("ValueError",
                                     <<"height and width must be > 0">>))
                        /\ UNCHANGED <<images, img>>
                   ELSE /\ img' = Downsample(p, DefaultMaxWidth)
                        /\ images' = Append(images,
                               [src |-> rendered,
                                w |-> Downsample(p, DefaultMaxWidth).w,
                                h |-> Downsample(p, DefaultMaxWidth).h])
                        /\ UNCHANGED <<pc, result, exc, handles>>
    /\ UNCHANGED <<cfgVars, mainVars>>
    /\ UNCHANGED <<entry, input, ftype, calls, probed>>

\* line 245: page.get_pixmap raises inside the library; no try encloses it
RasterRenderFails ==
    /\ pc = "r_page"
    /\ rendered < PageCount(input)
    /\ Raise(Exc("RuntimeError", <<"get_pixmap", rendered>>))
    /\ UNCHANGED <<cfgVars, mainVars, pages>>
    /\ UNCHANGED <<entry, input, ftype, calls, probed, rendered, images,
                   pix, img>>

----------------------------------------------------------------------------
(* app.main after a file was uploaded (src/app.py lines 58-124).  `log`    *)
(* lists the steps main carries out on the file, each when it is called.   *)

Step(s, idx) == [step |-> s, page |-> idx]

FrameMain ==
    UNCHANGED <<cfgVars, entry, input, ftype, calls, probed, rendered,
                images, pix, img>>

\* lines 60-76: Storage().upload_bytes_and_get_url(...) returns the URL
MainUpload ==
    /\ pc = "m_upload"
    /\ log' = Append(log, Step("upload_bytes_and_get_url", 0))
    /\ pc' = "m_process"
    /\ FrameMain
    /\ UNCHANGED <<handles, result, exc, pages, cleaned_pages, summary>>

\* lines 68-73: the upload (or building its client) raises
MainUploadFails ==
    /\ pc = "m_upload"
    /\ log' = Append(log, Step("upload_bytes_and_get_url", 0))
    /\ Raise(Exc("AzureError", <<"upload_bytes_and_get_url">>))
    /\ FrameMain
    /\ UNCHANGED <<pages, cleaned_pages, summary>>

\* line 80: process_file(file_bytes) is called
MainProcess ==
    /\ pc = "m_process"
    /\ log' = Append(log, Step("process_file", 0))
    /\ pc' = "detect"
    /\ FrameMain
    /\ UNCHANGED <<handles, result, exc, pages, cleaned_pages, summary>>

\* variant: each page is interpreted right after its OCR, in one loop
MainOcr_Interleaved ==
    /\ pc = "m_ocr"
    /\ IF Len(cleaned_pages) = Len(pages)
       THEN /\ pc' = "m_sum"
            /\ UNCHANGED <<log, cleaned_pages, summary>>
       ELSE /\ log' = log \o <<Step("analyze_img", Len(cleaned_pages) + 1),
                               Step("interpret_data", Len(cleaned_pages) + 1)>>
            /\ cleaned_pages' =
                 Append(cleaned_pages, Len(cleaned_pages) + 1)
            /\ summary' = Append(summary, Len(cleaned_pages) + 1)
            /\ UNCHANGED pc
    /\ FrameMain
    /\ UNCHANGED <<handles, result, exc, pages>>

(* lines 83-100: one iteration of the OCR loop (the text of page idx is    *)
(* appended to cleaned_pages), or the loop ends and the Interpreter is     *)
(* built.                                                                  *)
MainOcr ==
    /\ pc = "m_ocr"
    /\ IF Len(cleaned_pages) = Len(pages)
       THEN /\ pc' = "m_sum"
            /\ UNCHANGED <<log, cleaned_pages>>
       ELSE /\ log' = Append(log, Step("analyze_img", Len(cleaned_pages) + 1))
            /\ cleaned_pages' =
                 Append(cleaned_pages, Len(cleaned_pages) + 1)
            /\ UNCHANGED pc
    /\ FrameMain
    /\ UNCHANGED <<handles, result, exc, pages, summary>>

\* line 92: image_to_png_bytes(page) raises for a rendered page
MainPngFails ==
    /\ pc = "m_ocr"
    /\ Len(cleaned_pages) < Len(pages)
    /\ ftype = "pdf"
    /\ Raise(Exc("OSError", <<"image_to_png_bytes", Len(cleaned_pages) + 1>>))
    /\ FrameMain
    /\ UNCHANGED <<log, pages, cleaned_pages, summary>>

\* lines 94-95: analyze_img (or cleaned_result) raises
MainOcrFails ==
    /\ pc = "m_ocr"
    /\ Len(cleaned_pages) < Len(pages)
    /\ log' = Append(log, Step("analyze_img", Len(cleaned_pages) + 1))
    /\ Raise(Exc("RuntimeError", <<"analyze_img", Len(cleaned_pages) + 1>>))
    /\ FrameMain
    /\ UNCHANGED <<pages, cleaned_pages, summary>>

(* lines 102-114: one iteration of the summary loop (the section           *)
(* "### Page idx" is appended to summary), or the loop ends and the        *)
(* summary is displayed.                                                   *)
MainSummarize ==
    /\ pc = "m_sum"
    /\ IF Len(summary) = Len(cleaned_pages)
       THEN /\ pc' = "done"
            /\ result' = [kind |-> "None", shown |-> "Summary"]
            /\ UNCHANGED <<log, summary>>
       ELSE /\ log' = Append(log, Step("interpret_data", Len(summary) + 1))
            /\ summary' = Append(summary, Len(summary) + 1)
            /\ UNCHANGED <<pc, result>>
    /\ FrameMain
    /\ UNCHANGED <<handles, exc, pages, cleaned_pages>>

\* line 110: interpret_data raises
MainSummarizeFails ==
    /\ pc = "m_sum"
    /\ Len(summary) < Len(cleaned_pages)
    /\ log' = Append(log, Step("interpret_data", Len(summary) + 1))
    /\ Raise(Exc("OpenAIError", <<"interpret_data", Len(summary) + 1>>))
    /\ FrameMain
    /\ UNCHANGED <<pages, cleaned_pages, summary>>

\* lines 116-124: the except clauses display the error; main returns
MainExcept ==
    /\ pc = "m_except"
    /\ pc' = "done"
    /\ result' =
         [kind |-> "None",
          shown |-> CASE exc.kind \in FileErrors -> "File error"
                      [] exc.kind = "RequestException" ->
                            "Failed to download URL"
                      [] OTHER -> "Unexpected error"]
    /\ FrameMain
    /\ UNCHANGED <<handles, exc, log, pages, cleaned_pages, summary>>

Next ==
    \/ Detect
    \/ ValidateSize
    \/ ValidatePdfOpen
    \/ ValidatePageCount
    \/ ValidatePageCountFails
    \/ ValidatePage
    \/ ValidateProbeFails
    \/ ValidateImage
    \/ Convert
    \/ RasterOpen
    \/ RasterPage
    \/ RasterRenderFails
    \/ MainUpload
    \/ MainUploadFails
    \/ MainProcess
    \/ MainOcr
    \/ MainPngFails
    \/ MainOcrFails
    \/ MainSummarize
    \/ MainSummarizeFails
    \/ MainExcept

Spec == Init /\ [][Next]_vars

----------------------------------------------------------------------------
(* The resize step of pdf_bytes_to_images on its own, lines 250-253, for   *)
(* every rendered bitmap size in a range.                                  *)

ResizeInit ==
    /\ entry = "pdf_bytes_to_images"
    /\ input = Bytes("pdf", 1024, NoDim, <<>>, 0)
    /\ ftype = "none"
    /\ pc = "resize"
    /\ calls = {"raster.fitz.open"}
    /\ handles = {"raster"}
    /\ probed = 0
    /\ rendered = 0
    /\ images = <<>>
    /\ pix \in {Dim(w, h) : w \in ResizeWLo..ResizeWHi, h \in 1..ResizeHHi}
    /\ img = pix
    /\ result = NoResult
    /\ exc = NoExc
    /\ env = FullEnv
    /\ Idle

Resize ==
    /\ pc = "resize"
    /\ IF ResizeRaises(pix, DefaultMaxWidth)
       THEN /\ Raise(Exc("ValueError", <<"height and width must be > 0">>))
            /\ UNCHANGED img
       ELSE /\ img' = Downsample(pix, DefaultMaxWidth)
            /\ pc' = "done"
            /\ UNCHANGED <<result, exc, handles>>
    /\ UNCHANGED <<cfgVars, mainVars, pages>>
    /\ UNCHANGED <<entry, input, ftype, calls, probed, rendered, images, pix>>

SpecResize == ResizeInit /\ [][Resize]_vars

----------------------------------------------------------------------------
(* check_all_configs (src/config.py lines 246-282), for every combination  *)
(* of settings.                                                            *)

ConfigInit ==
    /\ entry = "check_all_configs"
    /\ input = Bytes("empty", 0, NoDim, <<>>, 0)
    /\ ftype = "none"
    /\ pc = "c_loop"
    /\ calls = {}
    /\ handles = {}
    /\ probed = 0
    /\ rendered = 0
    /\ images = <<>>
    /\ pix = NoDim
    /\ img = NoDim
    /\ result = NoResult
    /\ exc = NoExc
    /\ env \in Envs
    /\ Idle

FrameConfig ==
    UNCHANGED <<entry, input, ftype, calls, handles, probed, rendered,
                images, pix, img, env, mainVars, pages>>

\* what the call of configs[id] can do under the settings
ClientOutcomes ==
    { client_function(configs[id], env, sdk1, sdk2) :
        sdk1 \in SdkFor(~Not(env.AZURE_STORAGE_ENDPOINT)),
        sdk2 \in SdkFor(Ready(configs[id], env)) }

(* lines 266-275: one iteration of the loop.  The value client_function    *)
(* returns is dropped; only a ValueError leaving it clears the flag.       *)
CheckConfig ==
    /\ pc = "c_loop"
    /\ id <= Len(configs)
    /\ \E o \in ClientOutcomes :
         /\ o.exc \in {"none", "ValueError"}
         /\ returned' = Append(returned, o.ret)
         /\ all_initialized' = IF o.exc = "ValueError"
                               THEN FALSE ELSE all_initialized
    /\ id' = id + 1
    /\ FrameConfig
    /\ UNCHANGED <<pc, result, exc>>

\* line 271: an exception other than ValueError leaves check_all_configs
CheckConfigEscapes ==
    /\ pc = "c_loop"
    /\ id <= Len(configs)
    /\ \E o \in ClientOutcomes :
         /\ o.exc \notin {"none", "ValueError"}
         /\ pc' = "raised"
         /\ exc' = Exc(o.exc, <<configs[id]>>)
    /\ FrameConfig
    /\ UNCHANGED <<id, all_initialized, returned, result>>

\* lines 277-282
CheckConfigsReturn ==
    /\ pc = "c_loop"
    /\ id > Len(configs)
    /\ pc' = "done"
    /\ result' = [kind |-> "bool", val |-> all_initialized]
    /\ FrameConfig
    /\ UNCHANGED <<id, all_initialized, returned, exc>>

ConfigNext ==
    \/ CheckConfig
    \/ CheckConfigEscapes
    \/ CheckConfigsReturn

SpecConfig == ConfigInit /\ [][ConfigNext]_vars

----------------------------------------------------------------------------
(* Properties                                                              *)

Finished == pc \in {"done", "raised"}

SizeLimitBytes == AZURE_MAX_FILE_MB * MiB

\* the document satisfies every limit validate_file enforces
WithinLimits(b) ==
    /\ b.content = "pdf"
    /\ b.len <= SizeLimitBytes
    /\ PageCount(b) <= AZURE_MAX_PDF_PAGES
    /\ \A i \in 0..(Len(b.pages) - 1) :
          /\ b.pages[i + 1].w <= AZURE_MAX_IMAGE_WIDTH
          /\ b.pages[i + 1].h <= AZURE_MAX_IMAGE_HEIGHT
    /\ b.fill > 0 => /\ FillerPage.w <= AZURE_MAX_IMAGE_WIDTH
                     /\ FillerPage.h <= AZURE_MAX_IMAGE_HEIGHT

RasterStarted ==
    \/ "raster.fitz.open" \in calls
    \/ rendered > 0
    \/ images # <<>>
    \/ pc \in {"r_open", "r_page"}

\* C1: validate_file(bytes, "image") on a well-formed image within the
\* file-size limit whose width or height exceeds the maximum fails with
\* FileTooLargeError, and so does process_file on it.
C1_OversizedImageIsTooLarge ==
    ( /\ entry \in {"validate_file", "process_file"}
      /\ ftype = "image"
      /\ input.content = "image"
      /\ input.len <= SizeLimitBytes
      /\ (input.w > AZURE_MAX_IMAGE_WIDTH \/ input.h > AZURE_MAX_IMAGE_HEIGHT)
      /\ Finished )
    => (pc = "raised" /\ exc.kind = "FileTooLargeError")

\* C2: process_file either returns a complete result (every page, or the
\* image bytes) or raises exactly one of the four file errors; nothing else
\* escapes and no partial page list is returned.
C2_OnlyFourKindsEscape ==
    entry = "process_file" =>
        /\ pc = "raised" => exc.kind \in FileErrors
        /\ pc = "done" =>
              \/ result.kind = "bytes"
              \/ result.kind = "pages" /\ Len(result.val) = PageCount(input)

\* C3: in process_file the rasterizer is reached, and a page rendered for
\* output, only after validate_file has gone through the whole document
\* without failure; a document that breaks a limit is never rendered.
C3_ValidateBeforeRasterize ==
    (entry = "process_file" /\ RasterStarted) =>
        /\ WithinLimits(input)
        /\ "validate.fitz.open" \in calls
        /\ probed = PageCount(input)

C3_Witness ==
    /\ entry = "process_file"
    /\ pc = "raised"
    /\ exc.kind = "FileTooLargeError"
    /\ probed >= 1
    /\ ~RasterStarted

\* C4: for an input longer than the size limit validate_file fails with
\* FileTooLargeError before any format-specific open is attempted, for both
\* kinds; oversized and corrupted is reported as too large.
C4_SizeBeforeParse ==
    ( /\ entry \in {"validate_file", "process_file"}
      /\ input.len > SizeLimitBytes )
    => /\ calls \cap {"validate.fitz.open", "validate.Image.open",
                      "raster.fitz.open"} = {}
       /\ (Finished /\ ftype # "none") =>
             (pc = "raised" /\ exc.kind = "FileTooLargeError")

C4_Witness ==
    /\ entry = "validate_file"
    /\ pc = "raised"
    /\ input.len > SizeLimitBytes
    /\ \/ ftype = "pdf" /\ input.content = "pdf_broken"
       \/ ftype = "image" /\ input.content = "image_trunc"
    /\ exc.kind = "FileTooLargeError"

IsSizeError(e) ==
    /\ e.kind = "FileTooLargeError"
    /\ Len(e.msg) = 4
    /\ e.msg[2] = " exceeds max allowed size of "

\* C5 as stated: every input of more than 500 * 1,000,000 bytes is rejected
\* by validate_file as too large.
C5_DecimalMegabytes ==
    ( /\ entry = "validate_file"
      /\ Finished
      /\ input.len > AZURE_MAX_FILE_MB * 1000000 )
    => (pc = "raised" /\ exc.kind = "FileTooLargeError")

\* C5 amended: validate_file rejects on size exactly the inputs of more
\* than 500 * 1024 * 1024 bytes, whatever the kind.
C5_BinaryMegabytes ==
    (entry = "validate_file" /\ Finished) =>
        ((input.len > AZURE_MAX_FILE_MB * 1024 * 1024)
            <=> (pc = "raised" /\ IsSizeError(exc)))

C5_Witness ==
    /\ entry = "validate_file"
    /\ pc = "raised"
    /\ input.len = AZURE_MAX_FILE_MB * 1024 * 1024 + 1
    /\ IsSizeError(exc)

\* C6: every PDF document handle opened during a process_file call is
\* closed by the time the call returns or fails.
C6_HandlesClosedAtExit ==
    (entry = "process_file" /\ Finished) => handles = {}

\* C7: pdf_bytes_to_images on an N-page PDF returns exactly N images, the
\* image at index i being the rendering of page i, whether or not pages are
\* downsampled.
C7_PageOrder ==
    (pc = "done" /\ result.kind = "pages") =>
        /\ Len(result.val) = PageCount(input)
        /\ \A i \in 1..Len(result.val) : result.val[i].src = i - 1

C7_Witness ==
    /\ pc = "done"
    /\ result.kind = "pages"
    /\ Len(result.val) = 2
    /\ result.val[1].w < DefaultMaxWidth
    /\ Render(input.pages[2], DefaultDpi).w > DefaultMaxWidth

\* C8 as stated: a rendered page wider than max_width comes back max_width
\* wide and round(H * max_width / W) high (a nearest integer).
C8_RoundedHeight ==
    (pc = "done" /\ pix.w > DefaultMaxWidth) =>
        /\ img.w = DefaultMaxWidth
        /\ 2 * (img.h * pix.w - pix.h * DefaultMaxWidth) <= pix.w
        /\ 2 * (pix.h * DefaultMaxWidth - img.h * pix.w) <= pix.w

\* C8 amended: the height is H * max_width / W truncated, not rounded: the
\* floor of the quotient, or one less than the quotient when W divides
\* H * max_width and the floating-point product falls short of it.
C8_TruncatedHeight ==
    (pc = "done" /\ pix.w > DefaultMaxWidth) =>
        /\ img.w = DefaultMaxWidth
        /\ \/ img.h = (pix.h * DefaultMaxWidth) \div pix.w
           \/ /\ (pix.h * DefaultMaxWidth) % pix.w = 0
              /\ img.h = (pix.h * DefaultMaxWidth) \div pix.w - 1

C8_Witness ==
    /\ pc = "done"
    /\ pix.w > DefaultMaxWidth
    /\ img.h = (pix.h * DefaultMaxWidth) \div pix.w
    /\ 2 * ((pix.h * DefaultMaxWidth) % pix.w) > pix.w

\* C9: a rendered page wider than max_width comes back max_width wide with
\* a height within one pixel of H * max_width / W; a page at or under
\* max_width comes back with its rendered size.
C9_DownsampleWithinOnePixel ==
    pc = "done" =>
        IF pix.w > DefaultMaxWidth
        THEN /\ img.w = DefaultMaxWidth
             /\ img.h * pix.w - pix.h * DefaultMaxWidth <= pix.w
             /\ pix.h * DefaultMaxWidth - img.h * pix.w <= pix.w
        ELSE img = pix

C9_Witness ==
    /\ pc = "done"
    /\ pix.w > DefaultMaxWidth
    /\ img.w = DefaultMaxWidth
    /\ pix.h * DefaultMaxWidth - img.h * pix.w = pix.w

\* C10: detect_file_type always ends in one of four outcomes, decided in
\* this order: empty input raises EmptyFileError; input beginning with %PDF
\* returns "pdf" without any image decode; input that opens and verifies as
\* an image returns "image"; anything else raises UnsupportedFileTypeError.
C10_DetectPriority ==
    (entry = "detect_file_type" /\ Finished) =>
        IF input.len = 0
        THEN /\ pc = "raised" /\ exc.kind = "EmptyFileError"
             /\ calls = {}
        ELSE IF input.content \in {"pdf", "pdf_broken"}
        THEN /\ pc = "done" /\ result = [kind |-> "type", val |-> "pdf"]
             /\ calls = {}
        ELSE IF input.content = "image"
        THEN pc = "done" /\ result = [kind |-> "type", val |-> "image"]
        ELSE pc = "raised" /\ exc.kind = "UnsupportedFileTypeError"

C10_Witness ==
    /\ entry = "detect_file_type"
    /\ pc = "raised"
    /\ input.content = "image_trunc"
    /\ exc.kind = "UnsupportedFileTypeError"

\* C11: within the size limit validate_file fails with CorruptedFileError
\* whenever the document cannot be opened or parsed (a PDF that fitz.open
\* rejects, an image that Image.open or verify() rejects); process_file on
\* bytes that begin with %PDF but do not parse fails with CorruptedFileError.
C11_UnparsableIsCorrupted ==
    ( /\ entry \in {"validate_file", "process_file"}
      /\ Finished
      /\ input.len <= SizeLimitBytes
      /\ \/ ftype = "pdf" /\ input.content # "pdf"
         \/ ftype = "image" /\ input.content # "image" )
    => (pc = "raised" /\ exc.kind = "CorruptedFileError")

C11_Witness ==
    /\ entry = "process_file"
    /\ pc = "raised"
    /\ input.content = "pdf_broken"
    /\ input.len <= SizeLimitBytes
    /\ exc.kind = "CorruptedFileError"

\* C12: for an image that passes validation process_file returns its input
\* bytes unchanged and never a page list; for a PDF it returns a page list
\* and never bytes.
C12_TaggedResult ==
    (entry = "process_file" /\ Finished) =>
        /\ ( /\ input.content = "image"
             /\ input.len <= SizeLimitBytes
             /\ input.w <= AZURE_MAX_IMAGE_WIDTH
             /\ input.h <= AZURE_MAX_IMAGE_HEIGHT )
           => (pc = "done" /\ result = [kind |-> "bytes", val |-> input])
        /\ pc = "done" =>
              \/ /\ input.content = "image"
                 /\ result = [kind |-> "bytes", val |-> input]
              \/ /\ input.content = "pdf"
                 /\ result.kind = "pages"

C12_Witness ==
    /\ entry = "process_file"
    /\ pc = "done"
    /\ input.content = "image"
    /\ input.len = SizeLimitBytes
    /\ result.kind = "bytes"
    /\ result.val = input

\* the numbers interpolated into a FileTooLargeError message, in order
NumbersOf(e) ==
    CASE Len(e.msg) = 4 -> <<e.msg[3]>>
      [] Len(e.msg) = 3 -> <<e.msg[1], e.msg[3]>>
      [] Len(e.msg) = 8 ->
            <<e.msg[2], e.msg[4], e.msg[5], e.msg[7], e.msg[8]>>
      [] Len(e.msg) = 6 -> <<e.msg[2], e.msg[3], e.msg[5], e.msg[6]>>
      [] OTHER -> <<>>

\* C13: every FileTooLargeError raised by validate_file carries the
\* measured value and the limit: observed size and max MB; observed page
\* count and max pages; page index, measured page size and max size;
\* measured image size and max size.
C13_TooLargeDetail ==
    ( /\ entry \in {"validate_file", "process_file"}
      /\ pc = "raised"
      /\ exc.kind = "FileTooLargeError" )
    => LET n == NumbersOf(exc)
       IN  IF input.len > SizeLimitBytes
           THEN /\ Len(n) = 2
                /\ n[1] \in {input.len, input.len \div MiB,
                             input.len \div 1000000}
                /\ n[2] = AZURE_MAX_FILE_MB
           ELSE IF ftype = "pdf" /\ PageCount(input) > AZURE_MAX_PDF_PAGES
           THEN n = <<PageCount(input), AZURE_MAX_PDF_PAGES>>
           ELSE IF ftype = "pdf"
           THEN n = <<probed, PageAt(input, probed).w,
                      PageAt(input, probed).h,
                      AZURE_MAX_IMAGE_WIDTH, AZURE_MAX_IMAGE_HEIGHT>>
           ELSE n = <<input.w, input.h,
                      AZURE_MAX_IMAGE_WIDTH, AZURE_MAX_IMAGE_HEIGHT>>

\* indexes of the pages whose native size exceeds a limit
Offending(b) ==
    { i \in 0..(Len(b.pages) - 1) :
        \/ b.pages[i + 1].w > AZURE_MAX_IMAGE_WIDTH
        \/ b.pages[i + 1].h > AZURE_MAX_IMAGE_HEIGHT }
    \cup IF /\ b.fill > 0
            /\ \/ FillerPage.w > AZURE_MAX_IMAGE_WIDTH
               \/ FillerPage.h > AZURE_MAX_IMAGE_HEIGHT
         THEN Len(b.pages)..(PageCount(b) - 1)
         ELSE {}

ValidationPassed ==
    \/ entry = "validate_file" /\ pc = "done"
    \/ entry = "process_file" /\ (pc \in {"convert", "done"} \/ RasterStarted)

\* C15: for a PDF within the size and page-count limits that opens,
\* validate_file fails with FileTooLargeError exactly on the documents with
\* a page whose probe is wider or higher than the maximum (a page exactly at
\* the maximum passes): it never gets past such a page, it passes when there
\* is none, and the error is raised at the smallest offending index with
\* that page's probe dimensions, no later page having been probed.  (A
\* len(doc) or get_pixmap that raises inside the library ends the call with
\* that exception before the offending page is reached.)
C15_FirstOffendingPage ==
    ( /\ entry \in {"validate_file", "process_file"}
      /\ ftype = "pdf"
      /\ "validate.fitz.open" \in calls
      /\ input.content = "pdf"
      /\ PageCount(input) <= AZURE_MAX_PDF_PAGES )
    => /\ probed <= PageCount(input)
       /\ \A i \in Offending(input) : probed <= i
       /\ ValidationPassed => Offending(input) = {}
       /\ (Finished /\ Offending(input) = {}) =>
             exc.kind \in {"none", "ValueError", "RuntimeError"}
       /\ (Finished /\ Offending(input) # {}) =>
             /\ pc = "raised"
             /\ exc.kind \in {"FileTooLargeError", "ValueError",
                              "RuntimeError"}
       /\ (pc = "raised" /\ exc.kind = "FileTooLargeError") =>
             /\ probed \in Offending(input)
             /\ pix = PageAt(input, probed)
             /\ NumbersOf(exc) = <<probed, pix.w, pix.h,
                                   AZURE_MAX_IMAGE_WIDTH,
                                   AZURE_MAX_IMAGE_HEIGHT>>

C15_Witness ==
    /\ entry = "validate_file"
    /\ pc = "raised"
    /\ exc.kind = "FileTooLargeError"
    /\ Len(input.pages) = 2
    /\ input.pages[1].h = AZURE_MAX_IMAGE_HEIGHT
    /\ probed = 1
    /\ pix = input.pages[2]

\* C16: every image process_file returns for a PDF that passed validation
\* is within the maximum image dimensions.
C16_ReturnedPagesWithinLimits ==
    (entry = "process_file" /\ pc = "done" /\ result.kind = "pages") =>
        \A i \in 1..Len(result.val) :
            /\ result.val[i].w <= AZURE_MAX_IMAGE_WIDTH
            /\ result.val[i].h <= AZURE_MAX_IMAGE_HEIGHT

\* C17: for a PDF that passed validation every image of the page list is
\* at least one pixel wide and high, and the resize step never computes a
\* height of 0 for a wide, short page.
C17_NoZeroHeight ==
    (entry = "process_file" /\ RasterStarted) =>
        /\ \A i \in 1..Len(images) : images[i].w >= 1 /\ images[i].h >= 1
        /\ (rendered > 0 /\ pix.w > DefaultMaxWidth) =>
              (pix.h * DefaultMaxWidth) \div pix.w >= 1

\* the validator of each entry of configs
Validates(name, e) ==
    CASE name = "Vision" -> validate_computer_vision_config(e)
      [] name = "OpenAI" -> validate_openai_config(e)
      [] name = "Azure Storage Blob" -> validate_blob_storage_config(e)
      [] OTHER -> validate_blob_service_config(e)

\* C14: check_all_configs returns True only if every one of the four
\* services passes its validator and its client function returned a
\* client; if a validator raises ValueError or a client function returned
\* None, check_all_configs returns False.
C14_TrueOnlyIfAllInitialized ==
    (entry = "check_all_configs" /\ pc = "done") =>
        /\ result.val =>
              \A i \in 1..Len(configs) :
                  /\ Validates(configs[i], env) = "none"
                  /\ returned[i] = "client"
        /\ ( \/ \E i \in 1..Len(configs) :
                    Validates(configs[i], env) = "ValueError"
             \/ \E i \in 1..Len(returned) : returned[i] = "None" ) =>
              ~result.val

\* the number of steps s that app.main has carried out
Count(s) == Cardinality({i \in 1..Len(log) : log[i].step = s})

\* upload, process_file, a analyses in page order, then i summarizations
InOrder(a, i) ==
    <<Step("upload_bytes_and_get_url", 0), Step("process_file", 0)>>
    \o [k \in 1..a |-> Step("analyze_img", k)]
    \o [k \in 1..i |-> Step("interpret_data", k)]

MainOrder ==
    entry = "main" =>
        /\ log = SubSeq(InOrder(Count("analyze_img"), Count("interpret_data")),
                        1, Len(log))
        /\ Count("analyze_img") <= Len(pages)
        /\ Count("interpret_data") > 0 =>
              Count("analyze_img") = Len(pages)
        /\ exc.kind \in FileErrors => Len(log) = 2
        /\ (pc = "done" /\ exc = NoExc) =>
              /\ Len(pages) = IF ftype = "pdf" THEN PageCount(input) ELSE 1
              /\ Count("analyze_img") = Len(pages)
              /\ Count("interpret_data") = Len(pages)
              /\ summary = [k \in 1..Len(pages) |-> k]

\* C18: app.main uploads the file, then calls process_file, then analyses
\* every page in page order, then summarizes every page in page order;
\* once a step has failed no further step is carried out (a file rejected
\* by process_file with a file error has been uploaded but is neither
\* analysed nor summarized); and on success there is one summarization and
\* one "Page i" section per page returned by process_file, one for an image.
C18_MainStepOrder ==
    /\ []MainOrder
    /\ [][(entry = "main" /\ exc # NoExc) => log' = log]_vars

C18_Witness ==
    /\ entry = "main"
    /\ pc = "done"
    /\ exc = NoExc
    /\ Len(pages) = 2
    /\ Len(log) = 6
    /\ Len(summary) = 2

====
